---- MODULE Spec2Model ----
(***************************************************************************)
(* Git Identity Switcher: the SSH setup wizard (webview script and the     *)
(* SSHManager controller behind it) and the files it touches, and the      *)
(* GitIdentityManager with the stored identities and the workspace's Git   *)
(* identity.                                                               *)
(*                                                                         *)
(* Strings are TLA+ strings; TLC evaluates Len, \o and SubSeq on them, so  *)
(* String.includes, toLowerCase, replace(/\s+/g, r) and trim are computed  *)
(* character by character, as the JavaScript runtime computes them.        *)
(***************************************************************************)
EXTENDS Naturals, Sequences, FiniteSets, TLC

VARIABLES
    sshDirExists,   \* fs.existsSync(this.sshDir)
    config,         \* ~/.ssh/config: [exists, content, mode]
    keyFiles,       \* key names whose key pair exists under ~/.ssh
    inbox,          \* messages posted by webviews, not yet received by onDidReceiveMessage
    procs,          \* child processes started by exec whose callback has not run yet
    outbox,         \* per panel: messages posted by the controller, not yet delivered
    escaped,        \* an exception left the onDidReceiveMessage handler or an exec callback
    currentStep,    \* webview: the step whose div has class "active"
    currentData,    \* webview: let currentData
    dom,            \* webview: which of the buttons hidden at first are displayed
    ev,             \* the handler of the program that ran last, its input and what it posted
    stored,         \* the setting gitIdentitySwitcher.identities (global): a list of identities
    saves,          \* config.update calls that have not completed yet
    treeIdentities, \* GitIdentityProvider: this.identities
    workspaceOpen,  \* vscode.workspace.workspaceFolders?.[0] is defined
    gitUser,        \* user.name and user.email in the workspace folder's Git configuration
    statusBar,      \* statusBarItem: whether it is shown, and its text
    idEv            \* the operation of GitIdentityManager that ran last, and its outcome

fsVars  == <<sshDirExists, config, keyFiles>>
ctlVars == <<inbox, procs, outbox, escaped>>
wvVars  == <<currentStep, currentData, dom>>
idVars  == <<stored, saves, treeIdentities, workspaceOpen, gitUser, statusBar, idEv>>
vars    == <<sshDirExists, config, keyFiles, inbox, procs, outbox,
             escaped, currentStep, currentData, dom, ev, idVars>>

----------------------------------------------------------------------------
(* Bounds of the model *)

\* requests of one panel that are posted, running or answered but not yet delivered
MaxOutstanding == 2
\* wizard panels opened by runSSHWizard
NumPanels == 2

Panels == 1..NumPanels

----------------------------------------------------------------------------
(* JavaScript strings *)

\* the value of a property that is absent from an object
Undefined == "<undefined>"

\* `${x}` in a template literal
Interp(x) == IF x = Undefined THEN "undefined" ELSE x

Ch(s, i) == SubSeq(s, i, i)

UpperCase == "ABCDEFGHIJKLMNOPQRSTUVWXYZ"
LowerCase == "abcdefghijklmnopqrstuvwxyz"

LowerOf ==
    [c \in {Ch(UpperCase, i) : i \in 1..Len(UpperCase)} |->
        Ch(LowerCase, CHOOSE i \in 1..Len(UpperCase) : Ch(UpperCase, i) = c)]

LowerCh(c) == IF c \in DOMAIN LowerOf THEN LowerOf[c] ELSE c

RECURSIVE toLowerCase(_)
toLowerCase(s) ==
    IF s = "" THEN "" ELSE LowerCh(Ch(s, 1)) \o toLowerCase(SubSeq(s, 2, Len(s)))

\* the characters \s matches, among those the model's strings are made of
IsSpace(c) == c \in {" ", "\t", "\n"}

RECURSIVE SkipSpace(_)
SkipSpace(s) ==
    IF s # "" /\ IsSpace(Ch(s, 1)) THEN SkipSpace(SubSeq(s, 2, Len(s))) ELSE s

\* s.replace(/\s+/g, r)
RECURSIVE replaceSpaceRuns(_, _)
replaceSpaceRuns(s, r) ==
    IF s = "" THEN ""
    ELSE IF IsSpace(Ch(s, 1)) THEN r \o replaceSpaceRuns(SkipSpace(s), r)
    ELSE Ch(s, 1) \o replaceSpaceRuns(SubSeq(s, 2, Len(s)), r)

\* hay.includes(needle)
includes(hay, needle) ==
    \E i \in 1..(Len(hay) + 1) :
        /\ i + Len(needle) - 1 <= Len(hay)
        /\ SubSeq(hay, i, i + Len(needle) - 1) = needle

RECURSIVE trimEnd(_)
trimEnd(s) ==
    IF s # "" /\ IsSpace(Ch(s, Len(s))) THEN trimEnd(SubSeq(s, 1, Len(s) - 1)) ELSE s

\* s.trim()
trim(s) == trimEnd(SkipSpace(s))

----------------------------------------------------------------------------
(* The Host entries of an ssh config text: the lines that read "Host <alias>" *)

LineStarts(s) == {i \in 1..Len(s) : i = 1 \/ Ch(s, i - 1) = "\n"}

\* the position just past the line that starts at i
LineEnd(s, i) ==
    CHOOSE j \in i..(Len(s) + 1) :
        /\ j = Len(s) + 1 \/ Ch(s, j) = "\n"
        /\ \A k \in i..(j - 1) : Ch(s, k) # "\n"

HostLines(s) == {i \in LineStarts(s) : i + 4 <= Len(s) /\ SubSeq(s, i, i + 4) = "Host "}

AliasAt(s, i) == SubSeq(s, i + 5, LineEnd(s, i) - 1)

CountHost(s, alias) == Cardinality({i \in HostLines(s) : AliasAt(s, i) = alias})

NoDuplicateHosts(s) ==
    \A i, j \in HostLines(s) : i # j => AliasAt(s, i) # AliasAt(s, j)

----------------------------------------------------------------------------
(* Messages between a webview and the controller *)

DataFields ==
    {"identityName", "email", "provider", "keyName", "publicKey", "hostAlias", "hostUrl"}

\* a request payload none of whose properties is set: {}
NoData == [f \in DataFields |-> Undefined]

Has(d, f) == f \in DOMAIN d

Request(panel, command, data) == [panel |-> panel, command |-> command, data |-> data]

Response(command, data) == [command |-> command, data |-> data]

\* what a call leaves behind: the files, the process it started,
\* the messages it posted, and the exception it threw to its caller (if any)
Result(cfg, dir, started, posted, thrown) ==
    [config |-> cfg, sshDirExists |-> dir,
     started |-> started, posted |-> posted, thrown |-> thrown]

NotThrown == "<none>"

----------------------------------------------------------------------------
(* SSHManager *)

\* the mode given to fs.writeFileSync for a config file it creates
OwnerReadWrite == 384

TypeErrorToLowerCase == "Cannot read properties of undefined (reading 'toLowerCase')"

\* the key name as it would be with the separator of the host alias
keyNameDashed(identityName) ==
    "id_rsa-" \o replaceSpaceRuns(toLowerCase(identityName), "-")

\* `id_rsa_${identityName.toLowerCase().replace(/\s+/g, '_')}`
keyNameOf(identityName) ==
    "id_rsa_" \o replaceSpaceRuns(toLowerCase(identityName), "_")

\* the alias as it would be without toLowerCase()
hostAliasKeepCase(provider, identityName) ==
    Interp(provider) \o "-" \o replaceSpaceRuns(identityName, "-")

\* `${provider}-${identityName.toLowerCase().replace(/\s+/g, '-')}`
hostAliasOf(provider, identityName) ==
    Interp(provider) \o "-" \o replaceSpaceRuns(toLowerCase(identityName), "-")

newConfig(identityName, provider, hostAlias, hostUrl, keyName) ==
    "\n# " \o identityName \o " - " \o Interp(provider) \o "\n"
    \o "Host " \o hostAlias \o "\n"
    \o "    HostName " \o Interp(hostUrl) \o "\n"
    \o "    User git\n"
    \o "    IdentityFile ~/.ssh/" \o Interp(keyName) \o "\n"
    \o "    IdentitiesOnly yes\n"
    \o "\n"

cloneExampleOf(hostAlias) == "git clone git@" \o hostAlias \o ":username/repo.git"

\* two other tests updateSSHConfig could make, against which the properties of
\* the config file are tried: an entry for exactly this alias, and no test at all
configHasEntry(configContent, hostAlias) == CountHost(configContent, hostAlias) > 0

configNeverExists(configContent, hostAlias) == FALSE

\* the test that decides whether updateSSHConfig appends its block
configAlreadyExists(configContent, hostAlias) ==
    includes(configContent, "Host " \o hostAlias)

configUpdatedFailure(cfg, dir, message) ==
    Result(cfg, dir, <<>>,
           <<Response("configUpdated", [success |-> FALSE, error |-> message])>>,
           NotThrown)

\* updateSSHConfig(data, webview); fault is what the file system does to this call:
\* "none", "read" (readFileSync throws) or "write" (writeFileSync throws)
\* the files are kept as strings of their bytes: an ASCII character is the
\* byte, InvalidByte stands for one byte that begins no UTF-8 sequence (0xE9,
\* an e acute in Latin-1), ReplacementCharacter for U+FFFD (bytes EF BF BD)
InvalidByte == "%"
ReplacementCharacter == "^"

\* buffer.toString('utf8'): every byte that is not part of a UTF-8 sequence is
\* decoded as U+FFFD
utf8Decode(bytes) ==
    IF \A k \in 1..Len(bytes) : Ch(bytes, k) # InvalidByte
    THEN bytes
    ELSE LET out[k \in 0..Len(bytes)] ==
               IF k = 0 THEN ""
               ELSE out[k - 1] \o (IF Ch(bytes, k) = InvalidByte
                                   THEN ReplacementCharacter ELSE Ch(bytes, k))
         IN  out[Len(bytes)]

\* fs.readFileSync(configPath, 'utf8')
readFileSync(bytes) == utf8Decode(bytes)

\* fs.writeFileSync without its mode option: a file it creates gets 0666 less
\* the umask 022
modeByDefault(cfg) == IF cfg.exists THEN cfg.mode ELSE 420

\* the permission bits after fs.writeFileSync(configPath, ..., { mode: 0o600 }):
\* the mode is used when the file is created, an existing file keeps its bits
modeAfterWrite(cfg) == IF cfg.exists THEN cfg.mode ELSE OwnerReadWrite

updateSSHConfig(data, cfg, dir, fault) ==
    IF cfg.exists /\ fault = "read"
    THEN configUpdatedFailure(cfg, dir, "EACCES: permission denied, open '~/.ssh/config'")
    ELSE IF data.identityName = Undefined
    THEN configUpdatedFailure(cfg, dir, TypeErrorToLowerCase)
    ELSE
      LET configContent == IF cfg.exists THEN readFileSync(cfg.content) ELSE ""
          hostAlias == hostAliasOf(data.provider, data.identityName)
          block == newConfig(data.identityName, data.provider, hostAlias,
                             data.hostUrl, data.keyName)
          present == configAlreadyExists(configContent, hostAlias)
      IN  IF ~present /\ (fault = "write" \/ ~dir)
          THEN configUpdatedFailure(cfg, dir,
                   IF dir THEN "EACCES: permission denied, open '~/.ssh/config'"
                          ELSE "ENOENT: no such file or directory, open '~/.ssh/config'")
          ELSE Result(
                 IF present THEN cfg
                 ELSE [exists  |-> TRUE,
                       content |-> configContent \o block,
                       mode    |-> modeAfterWrite(cfg)],
                 dir, <<>>,
                 <<Response("configUpdated",
                            [success |-> TRUE, hostAlias |-> hostAlias,
                             cloneExample |-> cloneExampleOf(hostAlias)])>>,
                 NotThrown)

keyGeneratedFailure(cfg, dir, message) ==
    Result(cfg, dir, <<>>,
           <<Response("keyGenerated", [success |-> FALSE, error |-> message])>>,
           NotThrown)

\* generateSSHKey(data, webview) up to its await: the key name, the directory, exec;
\* fault "mkdir" is mkdirSync throwing
generateSSHKey(data, cfg, dir, fault) ==
    IF data.identityName = Undefined
    THEN Result(cfg, dir, <<>>, <<>>, TypeErrorToLowerCase)
    ELSE IF ~dir /\ fault = "mkdir"
    THEN keyGeneratedFailure(cfg, dir, "EACCES: permission denied, mkdir '~/.ssh'")
    ELSE Result(cfg, TRUE,
                <<[kind |-> "ssh-keygen", keyName |-> keyNameOf(data.identityName),
                   email |-> data.email, provider |-> data.provider]>>,
                <<>>, NotThrown)

\* the public key ssh-keygen writes: the key material and the comment given by -C
publicKeyFile(keyName, email) == "ssh-rsa AAAA" \o keyName \o " " \o Interp(email) \o "\n"

\* generateSSHKey from the exec callback on: error is the callback's first argument,
\* fault "read" is readFileSync of the .pub file throwing
keyGenerated(proc, error, fault) ==
    IF error
    THEN <<Response("keyGenerated",
                    [success |-> FALSE, error |-> "Command failed: ssh-keygen -t rsa -b 4096"])>>
    ELSE IF fault = "read"
    THEN <<Response("keyGenerated",
                    [success |-> FALSE,
                     error |-> "ENOENT: no such file or directory, open '~/.ssh/" \o proc.keyName \o ".pub'"])>>
    ELSE <<Response("keyGenerated",
                    [success |-> TRUE, keyName |-> proc.keyName,
                     publicKey |-> trim(publicKeyFile(proc.keyName, proc.email)),
                     provider |-> proc.provider])>>

\* testSSHConnection as it would be if a failure to start the probe were dropped
testSSHConnectionSilent(data, cfg, dir, fault) ==
    IF fault = "exec"
    THEN Result(cfg, dir, <<>>, <<>>, NotThrown)
    ELSE Result(cfg, dir,
                <<[kind |-> "ssh", hostAlias |-> data.hostAlias]>>, <<>>, NotThrown)

\* testSSHConnection(data, webview) up to the return: exec is started and not awaited;
\* fault "exec" is exec throwing before the process starts
testSSHConnection(data, cfg, dir, fault) ==
    IF fault = "exec"
    THEN Result(cfg, dir, <<>>,
                <<Response("connectionTested",
                           [success |-> FALSE,
                            error |-> "The argument 'command' is invalid"])>>,
                NotThrown)
    ELSE Result(cfg, dir,
                <<[kind |-> "ssh", hostAlias |-> data.hostAlias]>>, <<>>, NotThrown)

AuthenticatedPhrase == "successfully authenticated"

\* the test of the exec callback as it would be if a failed process counted
connectionSucceededOnExitZero(error, stdout, stderr) ==
    ~error /\ includes(stdout \o stderr, AuthenticatedPhrase)

\* the exec callback of testSSHConnection
connectionSucceeded(error, stdout, stderr) ==
    LET output == stdout \o stderr
    IN  \/ includes(output, AuthenticatedPhrase)
        \/ includes(output, "You've " \o AuthenticatedPhrase)

connectionTested(error, stdout, stderr) ==
    <<Response("connectionTested",
               [success |-> connectionSucceeded(error, stdout, stderr),
                output  |-> trim(stdout \o stderr)])>>

\* copyPublicKey as it would be without its try/catch
copyPublicKeyNoTry(data, cfg, dir, fault) ==
    IF fault = "clipboard"
    THEN Result(cfg, dir, <<>>, <<>>, "Unable to write to clipboard")
    ELSE Result(cfg, dir, <<>>,
                <<Response("publicKeyCopied", [success |-> TRUE])>>, NotThrown)

\* copyPublicKey(data, webview); fault "clipboard" is clipboard.writeText rejecting;
\* the text of the clipboard is not part of the model
copyPublicKey(data, cfg, dir, fault) ==
    IF fault = "clipboard"
    THEN Result(cfg, dir, <<>>,
                <<Response("publicKeyCopied",
                           [success |-> FALSE, error |-> "Unable to write to clipboard"])>>,
                NotThrown)
    ELSE Result(cfg, dir, <<>>,
                <<Response("publicKeyCopied", [success |-> TRUE])>>, NotThrown)

\* the switch of onDidReceiveMessage
dispatch(message, cfg, dir, fault) ==
    CASE message.command = "generateKey"     -> generateSSHKey(message.data, cfg, dir, fault)
      [] message.command = "testConnection"  -> testSSHConnection(message.data, cfg, dir, fault)
      [] message.command = "updateSSHConfig" -> updateSSHConfig(message.data, cfg, dir, fault)
      [] message.command = "copyPublicKey"   -> copyPublicKey(message.data, cfg, dir, fault)
      [] OTHER -> Result(cfg, dir, <<>>, <<>>, NotThrown)

\* the try/catch of onDidReceiveMessage around the switch: an exception the called
\* operation throws is posted as an 'error' message; escaped tells whether an
\* exception leaves the handler
onDidReceiveMessage(message, cfg, dir, fault) ==
    LET r == dispatch(message, cfg, dir, fault)
    IN  [config |-> r.config, sshDirExists |-> r.sshDirExists,
         started |-> r.started,
         posted |-> IF r.thrown = NotThrown THEN r.posted
                    ELSE <<Response("error", [error |-> r.thrown])>>,
         escaped |-> FALSE]

----------------------------------------------------------------------------------------------------------------------------------------
(* The controller's steps *)

\* what can go wrong in the handler of a command, besides nothing
FaultsOf(command) ==
    CASE command = "generateKey"     -> {"none", "mkdir"}
      [] command = "testConnection"  -> {"none", "exec"}
      [] command = "updateSSHConfig" -> {"none", "read", "write"}
      [] command = "copyPublicKey"   -> {"none", "clipboard"}
      [] OTHER -> {"none"}

\* what the probe process can hand to the exec callback of testSSHConnection:
\* error is null or not (a non-zero exit code, or the 10 s timeout killing the process)
ProbeOutcomes ==
    { [error |-> TRUE,  stdout |-> "",
       stderr |-> "Hi octocat! You've successfully authenticated, but GitHub does not provide shell access.\n"],
      [error |-> FALSE, stdout |-> "Welcome to GitLab, @octocat!\n", stderr |-> ""],
      [error |-> FALSE, stdout |-> "You've successfully ", stderr |-> "authenticated\n"],
      [error |-> TRUE,  stdout |-> "", stderr |-> ""] }

\* op: the handler that ran; input: what it was given; pre: the config file before
\* it ran; posted: the messages it posted
Event(op, panel, input, pre, posted) ==
    [op |-> op, panel |-> panel, input |-> input, pre |-> pre, posted |-> posted]

RemoveAt(q, i) == SubSeq(q, 1, i - 1) \o SubSeq(q, i + 1, Len(q))

\* requests that are posted, running, or answered and not yet delivered
Outstanding ==
    LET count[i \in 0..NumPanels] == IF i = 0 THEN 0 ELSE count[i - 1] + Len(outbox[i])
    IN  Len(inbox) + Len(procs) + count[NumPanels]

\* panel.webview.onDidReceiveMessage(async (message) => ...) runs for the oldest message
Receive(fault) ==
    /\ inbox # <<>>
    /\ fault \in FaultsOf(Head(inbox).command)
    /\ \E m \in {Head(inbox)} :
       \E r \in {onDidReceiveMessage(m, config, sshDirExists, fault)} :
           /\ inbox' = Tail(inbox)
           /\ config' = r.config
           /\ sshDirExists' = r.sshDirExists
           /\ procs' = procs \o [i \in 1..Len(r.started) |->
                                   [panel |-> m.panel, proc |-> r.started[i]]]
           /\ outbox' = [outbox EXCEPT ![m.panel] = @ \o r.posted]
           /\ escaped' = (escaped \/ r.escaped)
           /\ ev' = Event(m.command, m.panel, [data |-> m.data, fault |-> fault],
                          config, r.posted)
    /\ UNCHANGED idVars
    /\ UNCHANGED <<keyFiles, currentStep, currentData, dom>>

\* the exec callback of generateSSHKey runs: ssh-keygen has ended
KeygenExit(i, error, fault) ==
    /\ i \in 1..Len(procs)
    /\ procs[i].proc.kind = "ssh-keygen"
    /\ error => fault = "none"
    /\ \E p \in {procs[i]} :
       \E posted \in {keyGenerated(p.proc, error, fault)} :
           /\ keyFiles' = IF error THEN keyFiles ELSE keyFiles \cup {p.proc.keyName}
           /\ outbox' = [outbox EXCEPT ![p.panel] = @ \o posted]
           /\ ev' = Event("keygenExit", p.panel,
                          [proc |-> p.proc, error |-> error, fault |-> fault],
                          config, posted)
    /\ procs' = RemoveAt(procs, i)
    /\ UNCHANGED idVars
    /\ UNCHANGED <<sshDirExists, config, inbox, escaped,
                   currentStep, currentData, dom>>

\* the exec callback of testSSHConnection runs: ssh has ended or was killed
SshExit(i, o) ==
    /\ i \in 1..Len(procs)
    /\ procs[i].proc.kind = "ssh"
    /\ \E p \in {procs[i]} :
       \E posted \in {connectionTested(o.error, o.stdout, o.stderr)} :
           /\ outbox' = [outbox EXCEPT ![p.panel] = @ \o posted]
           /\ ev' = Event("sshExit", p.panel, [proc |-> p.proc, outcome |-> o],
                          config, posted)
    /\ procs' = RemoveAt(procs, i)
    /\ UNCHANGED idVars
    /\ UNCHANGED <<sshDirExists, config, keyFiles, inbox, escaped,
                   currentStep, currentData, dom>>

Controller ==
    \/ \E fault \in {"none", "read", "write", "mkdir", "exec", "clipboard"} : Receive(fault)
    \/ \E i \in 1..Len(procs), error \in BOOLEAN, fault \in {"none", "read"} :
          KeygenExit(i, error, fault)
    \/ \E i \in 1..Len(procs), o \in ProbeOutcomes : SshExit(i, o)

----------------------------------------------------------------------------
(* Initial states *)

\* what ~/.ssh holds before the wizard is first used
InitialFiles ==
    { [dir |-> FALSE, config |-> [exists |-> FALSE, content |-> "", mode |-> OwnerReadWrite]],
      [dir |-> TRUE,  config |-> [exists |-> FALSE, content |-> "", mode |-> OwnerReadWrite]],
      [dir |-> TRUE,  config |-> [exists |-> TRUE,  mode |-> 420,
          content |-> "Host example\n    HostName example.com\n"]] }

NoConfig == [exists |-> FALSE, content |-> "", mode |-> OwnerReadWrite]

NoEvent == Event("none", 0, [data |-> NoData], NoConfig, <<>>)

\* no wizard has been used yet
WizardInitWith(files) ==
    /\ \E f \in files : sshDirExists = f.dir /\ config = f.config
    /\ keyFiles = {}
    /\ inbox = <<>>
    /\ procs = <<>>
    /\ outbox = [p \in Panels |-> <<>>]
    /\ escaped = FALSE
    /\ currentStep = 1
    /\ currentData = [f \in DataFields \ {"hostUrl"} |-> Undefined]
    /\ dom = [nextStep2 |-> FALSE, testButton |-> FALSE, completeButton |-> FALSE]
    /\ ev = NoEvent

WizardInit == WizardInitWith(InitialFiles)

\* user.name and user.email are not set in the workspace folder
NoGitUser == [name |-> Undefined, email |-> Undefined]

NoIdEvent == [op |-> "none"]

\* the status bar item as createStatusBarItem returns it: not shown, no text
StatusBarCreated == [shown |-> FALSE, text |-> ""]

\* the message of the error for a missing workspace folder
NoWorkspace == "No workspace folder open"

\* lines[k] || 'Not set' for the k-th line of stdout.trim().split('\n'), k = 1, 2
lineOrNotSet(text, k) ==
    LET end1 == LineEnd(text, 1)
        line == IF k = 1 THEN SubSeq(text, 1, end1 - 1)
                ELSE IF end1 > Len(text) THEN ""
                ELSE SubSeq(text, end1 + 1, LineEnd(text, end1 + 1) - 1)
    IN  IF line = "" THEN "Not set" ELSE line

\* getCurrentIdentity(): git config user.name && git config user.email fails when
\* one of them is not set
getCurrentIdentity(open, user) ==
    IF ~open
    THEN [ended |-> "rejected", error |-> NoWorkspace, ran |-> FALSE]
    ELSE IF user.name = Undefined \/ user.email = Undefined
    THEN [ended |-> "rejected", error |-> "Command failed: git config user.name && git config user.email",
          ran |-> TRUE]
    ELSE LET stdout == user.name \o "\n" \o user.email \o "\n"
         IN  [ended |-> "resolved", ran |-> TRUE,
              username |-> lineOrNotSet(trim(stdout), 1),
              email |-> lineOrNotSet(trim(stdout), 2)]

\* statusBarItem.text for a username
statusBarText(username) == "$(person) " \o username

\* updateStatusBar(): the item after getCurrentIdentity resolved or rejected
updateStatusBar(bar, current) ==
    IF current.ended = "resolved"
    THEN [shown |-> TRUE, text |-> statusBarText(current.username)]
    ELSE [bar EXCEPT !.shown = FALSE]

\* the status bar item once activate has run updateStatusBar
StatusBarAt(open, user) == updateStatusBar(StatusBarCreated, getCurrentIdentity(open, user))

\* the identities stored, the workspace and its Git identity at activation
IdentitiesInit(lists, workspaces, gitUsers) ==
    /\ stored \in lists
    /\ saves = <<>>
    /\ treeIdentities = stored
    /\ workspaceOpen \in workspaces
    /\ gitUser \in gitUsers
    /\ statusBar = StatusBarAt(workspaceOpen, gitUser)
    /\ idEv = NoIdEvent

Init == WizardInit /\ IdentitiesInit({<<>>}, {TRUE}, {NoGitUser})

----------------------------------------------------------------------------
(* The controller driven by panels whose script is not the wizard's *)

SessionData(identityName, email, provider, hostUrl) ==
    [identityName |-> identityName, email |-> email, provider |-> provider,
     keyName |-> keyNameOf(identityName),
     publicKey |-> trim(publicKeyFile(keyNameOf(identityName), email)),
     hostAlias |-> hostAliasOf(provider, identityName),
     hostUrl |-> hostUrl]

\* the data of a testConnection request: { hostAlias }
WithHostAlias(a) == [f \in DataFields |-> IF f = "hostAlias" THEN a ELSE Undefined]

\* a panel's script calls vscode.postMessage; the extension host takes the messages
\* of its panels one at a time
PanelPost(p, command, data) ==
    /\ inbox = <<>>
    /\ Outstanding < MaxOutstanding
    /\ inbox' = Append(inbox, Request(p, command, data))
    /\ UNCHANGED idVars
    /\ UNCHANGED <<sshDirExists, config, keyFiles, procs, outbox, escaped,
                   currentStep, currentData, dom, ev>>

\* a panel's message listener takes the oldest posted message
PanelTake(p) ==
    /\ outbox[p] # <<>>
    /\ outbox' = [outbox EXCEPT ![p] = Tail(@)]
    /\ UNCHANGED idVars
    /\ UNCHANGED <<sshDirExists, config, keyFiles, inbox, procs, escaped,
                   currentStep, currentData, dom, ev>>

(* Any command with any payload, from one panel *)

CtlCommands == {"generateKey", "testConnection", "updateSSHConfig", "copyPublicKey", "closeWizard"}

CtlPayloads == {SessionData("Work", "a@b.com", "github", "github.com"), NoData}

NextCtl ==
    \/ \E c \in CtlCommands, d \in CtlPayloads : PanelPost(1, c, d)
    \/ PanelTake(1)
    \/ Controller

SpecCtl == Init /\ [][NextCtl]_vars

(* updateSSHConfig requests from several panels *)

ConfigPayloads ==
    { SessionData("Work", "a@b.com", "github", "github.com"),
      SessionData("work", "w@b.com", "github", "github.com"),
      SessionData("Work Account", "a@b.com", "github", "github.com") }

NextConfig ==
    \/ \E p \in Panels, d \in ConfigPayloads : PanelPost(p, "updateSSHConfig", d)
    \/ \E p \in Panels : PanelTake(p)
    \/ \E fault \in {"none", "read", "write"} : Receive(fault)

SpecConfig == Init /\ [][NextConfig]_vars

(* Properties of updateSSHConfig; ev is the last run of a handler *)

UpdateRan == ev.op = "updateSSHConfig" /\ ev.input.data.identityName # Undefined

RanAlias == hostAliasOf(ev.input.data.provider, ev.input.data.identityName)

ConfigUpdatedOk(alias) ==
    <<Response("configUpdated",
               [success |-> TRUE, hostAlias |-> alias,
                cloneExample |-> "git clone git@" \o alias \o ":username/repo.git"])>>

\* the step in which the handler runs again, for the same
\* {identityName, provider, keyName, hostUrl} as the run before it, both runs
\* reporting success
SecondOfTwoRuns ==
    /\ inbox # <<>>
    /\ inbox' = Tail(inbox)
    /\ UpdateRan
    /\ ev'.op = "updateSSHConfig"
    /\ \A f \in {"identityName", "provider", "keyName", "hostUrl"} :
          ev'.input.data[f] = ev.input.data[f]
    /\ ev.posted = ConfigUpdatedOk(RanAlias)
    /\ ev'.posted = ConfigUpdatedOk(RanAlias)

\* C1: updateSSHConfig run twice in a row with identical identityName, provider,
\* keyName and hostUrl leaves exactly one "Host <alias>" block in the config file:
\* the second run writes nothing, the file after it equals the file after the first
C1_TwiceLeavesOneBlock ==
    [][SecondOfTwoRuns =>
         /\ config' = config
         /\ CountHost(config'.content, RanAlias) = 1]_vars

\* C2: when the config file that is read already contains the text "Host <hostAlias>"
\* anywhere, updateSSHConfig writes nothing (the file is unchanged) and posts
\* configUpdated with success true and that hostAlias
C2_MarkerPresentNoWrite ==
    (/\ UpdateRan
     /\ ev.input.fault # "read"
     /\ ev.pre.exists
     /\ includes(ev.pre.content, "Host " \o RanAlias))
    => /\ config = ev.pre
       /\ ev.posted = ConfigUpdatedOk(RanAlias)

\* the marker is present only inside the Host line of a longer alias, and a write
\* would have failed
C2_Witness ==
    /\ UpdateRan
    /\ ev.input.fault = "write"
    /\ ev.pre.exists
    /\ includes(ev.pre.content, "Host " \o RanAlias)
    /\ CountHost(ev.pre.content, RanAlias) = 0
    /\ config = ev.pre
    /\ ev.posted = ConfigUpdatedOk(RanAlias)

\* C3: whatever the order in which the requests of several wizard sessions are
\* handled, the config file never holds two Host entries with the same alias
C3_NoDuplicateAlias == NoDuplicateHosts(config.content)

\* a second session has asked for the alias the first one's request had written,
\* the first one's answer not yet delivered: the file holds that entry once, beside
\* another
C3_Witness ==
    /\ UpdateRan
    /\ ev.panel = 2
    /\ ev.posted = ConfigUpdatedOk(RanAlias)
    /\ config = ev.pre
    /\ \E k \in 1..Len(outbox[1]) : outbox[1][k] = ConfigUpdatedOk(RanAlias)[1]
    /\ CountHost(config.content, RanAlias) = 1
    /\ Cardinality(HostLines(config.content)) >= 2

(* Properties of the controller's answers; ev is the last run of a handler or callback *)

ResponseOf(op) ==
    CASE op \in {"generateKey", "keygenExit"}  -> "keyGenerated"
      [] op \in {"testConnection", "sshExit"}  -> "connectionTested"
      [] op = "updateSSHConfig"                -> "configUpdated"
      [] op = "copyPublicKey"                  -> "publicKeyCopied"
      [] OTHER                                 -> "<none>"

\* the process the last request started is still running
StartedAndRunning ==
    \E i \in 1..Len(procs) :
        /\ procs[i].panel = ev.panel
        /\ procs[i].proc.kind = (IF ev.op = "generateKey" THEN "ssh-keygen" ELSE "ssh")

\* C8: each generateKey, testConnection, updateSSHConfig, copyPublicKey request,
\* whatever its payload, is answered by keyGenerated, connectionTested,
\* configUpdated, publicKeyCopied respectively, with a boolean success and, when
\* success is false, an error string; no message with another command is posted
C8_MatchingResponse ==
    ResponseOf(ev.op) # "<none>"
    => /\ \A k \in 1..Len(ev.posted) :
             /\ ev.posted[k].command = ResponseOf(ev.op)
             /\ Has(ev.posted[k].data, "success")
             /\ ev.posted[k].data.success \in BOOLEAN
             /\ ~ev.posted[k].data.success => Has(ev.posted[k].data, "error")
       /\ Len(ev.posted) = 1
          \/ (ev.op \in {"generateKey", "testConnection"}
               /\ ev.posted = <<>> /\ StartedAndRunning)

\* a delegated operation failed in the last run: the key generation process, the
\* read of the public key, the creation of ~/.ssh, the read or write of the config
\* file, the clipboard, the start of the probe
OperationFailed ==
    \/ ev.op = "keygenExit" /\ (ev.input.error \/ ev.input.fault = "read")
    \/ /\ ev.op = "generateKey"
       /\ ev.input.data.identityName # Undefined
       /\ ev.input.fault = "mkdir" /\ ~sshDirExists
    \/ /\ ev.op = "updateSSHConfig"
       /\ \/ ev.pre.exists /\ ev.input.fault = "read"
          \/ /\ ev.input.data.identityName # Undefined
             /\ ~includes(IF ev.pre.exists THEN ev.pre.content ELSE "",
                          "Host " \o RanAlias)
             /\ (ev.input.fault = "write" \/ ~sshDirExists)
    \/ ev.op = "copyPublicKey" /\ ev.input.fault = "clipboard"
    \/ ev.op = "testConnection" /\ ev.input.fault = "exec"

\* C9: no failure of a delegated operation leaves the message handler: each one
\* becomes one posted result of the operation, with success false and the error,
\* a failed probe process becomes one connectionTested result, and the controller
\* goes on handling commands
C9_FailuresArePosted ==
    /\ ~escaped
    /\ OperationFailed
       => /\ Len(ev.posted) = 1
          /\ ev.posted[1].command = ResponseOf(ev.op)
          /\ ~ev.posted[1].data.success
          /\ Has(ev.posted[1].data, "error")
    /\ (ev.op = "sshExit" /\ ev.input.outcome.error)
       => /\ Len(ev.posted) = 1
          /\ ev.posted[1].command = "connectionTested"
          /\ Has(ev.posted[1].data, "success")

\* the clipboard failed, its failure was posted to the panel, and the next command
\* is already waiting for the controller
C9_Witness ==
    /\ ev.op = "copyPublicKey" /\ ev.input.fault = "clipboard"
    /\ ev.posted = <<Response("publicKeyCopied",
                              [success |-> FALSE, error |-> "Unable to write to clipboard"])>>
    /\ ~escaped
    /\ inbox # <<>>

\* C10: the connection test reports success exactly when stdout followed by stderr
\* contains "successfully authenticated", whether or not the process ended in error
C10_SuccessIffPhrase ==
    ev.op = "sshExit"
    => /\ Len(ev.posted) = 1
       /\ ev.posted[1].command = "connectionTested"
       /\ ev.posted[1].data.success
          <=> includes(ev.input.outcome.stdout \o ev.input.outcome.stderr,
                       AuthenticatedPhrase)

\* the probe ended in error (exit code 1) and the test still reports success
C10_Witness ==
    /\ ev.op = "sshExit"
    /\ ev.input.outcome.error
    /\ ev.posted[1].data.success

(* Connection tests, each for a host alias no running test is for *)

ProbeAliases == {"github-work", "gitlab-work", "bitbucket-work"}

\* the test of alias a is requested or its probe is running
TestInFlight(a) ==
    \/ \E k \in 1..Len(inbox) :
          inbox[k].command = "testConnection" /\ inbox[k].data.hostAlias = a
    \/ \E i \in 1..Len(procs) :
          procs[i].proc.kind = "ssh" /\ procs[i].proc.hostAlias = a

\* testConnection() of a session whose hostAlias is a
ProbePost(a) ==
    /\ ~TestInFlight(a)
    /\ PanelPost(1, "testConnection", WithHostAlias(a))

NextProbe ==
    \/ \E a \in ProbeAliases : ProbePost(a)
    \/ PanelTake(1)
    \/ \E fault \in {"none", "exec"} : Receive(fault)
    \/ \E i \in 1..Len(procs), o \in ProbeOutcomes : SshExit(i, o)

\* the extension host runs the handler of a received message; a probe ends by
\* itself or is killed by exec's timeout of 10 s, and its callback runs
ProbeFairness ==
    /\ WF_vars(\E fault \in {"none", "exec"} : Receive(fault))
    /\ \A i \in 1..MaxOutstanding : WF_vars(\E o \in ProbeOutcomes : SshExit(i, o))

SpecProbe == Init /\ [][NextProbe]_vars /\ ProbeFairness

\* tests requested or running, and answers posted and not yet taken
TestsPending ==
    Cardinality({k \in 1..Len(inbox) : inbox[k].command = "testConnection"})
    + Cardinality({i \in 1..Len(procs) : procs[i].proc.kind = "ssh"})

TestsAnswered ==
    Cardinality({k \in 1..Len(outbox[1]) : outbox[1][k].command = "connectionTested"})

\* a step of the controller: no request arrives, no answer is taken
ControllerStep ==
    /\ Len(inbox') <= Len(inbox)
    /\ Len(outbox'[1]) >= Len(outbox[1])

----------------------------------------------------------------------------
(* The wizard's webview script (panel 1) *)

Wizard == 1

ValidationAlert == "Please fill in all required fields"
CompleteAlert == "SSH setup complete! You can now use this identity for Git operations."

\* what the user can have typed and selected in step 1
IdentityNames == {"", "Work"}
Emails == {"", "a@b.com"}
ProviderOptions == {"github"}

\* nextStep as it would be if it rejected the form only when both fields are empty
nextStepBothEmpty(stepNumber, step, data, identityName, email, provider) ==
    IF stepNumber = 2 /\ (identityName = "" /\ email = "")
    THEN [currentStep |-> step, currentData |-> data, alert |-> ValidationAlert]
    ELSE [currentStep |-> stepNumber,
          currentData |-> IF stepNumber = 2
                          THEN [f \in DOMAIN data |->
                                  CASE f = "identityName" -> identityName
                                    [] f = "email" -> email
                                    [] f = "provider" -> provider
                                    [] OTHER -> Undefined]
                          ELSE data,
          alert |-> ""]

\* nextStep(stepNumber): the step shown, currentData and the alert raised afterwards
nextStep(stepNumber, step, data, identityName, email, provider) ==
    IF stepNumber = 2 /\ (identityName = "" \/ email = "")
    THEN [currentStep |-> step, currentData |-> data, alert |-> ValidationAlert]
    ELSE [currentStep |-> stepNumber,
          currentData |-> IF stepNumber = 2
                          THEN [f \in DOMAIN data |->
                                  CASE f = "identityName" -> identityName
                                    [] f = "email" -> email
                                    [] f = "provider" -> provider
                                    [] OTHER -> Undefined]
                          ELSE data,
          alert |-> ""]

\* the button that calls nextStep(stepNumber) is displayed
nextStepShown(stepNumber, step, d) ==
    CASE stepNumber = 2 -> step = 1
      [] stepNumber = 3 -> step = 2 /\ d.nextStep2
      [] stepNumber = 4 -> step = 3
      [] OTHER -> FALSE

\* hostUrls[currentData.provider] as it would be without || 'github.com'
hostUrlsNoDefault(provider) ==
    CASE provider = "github" -> "github.com"
      [] provider = "gitlab" -> "gitlab.com"
      [] provider = "bitbucket" -> "bitbucket.org"
      [] OTHER -> Undefined

hostUrls(provider) ==
    CASE provider = "github" -> "github.com"
      [] provider = "gitlab" -> "gitlab.com"
      [] provider = "bitbucket" -> "bitbucket.org"
      [] OTHER -> "github.com"

WithField(d, f, v) == [g \in DOMAIN d |-> IF g = f THEN v ELSE d[g]]

\* the data of the message each trigger posts
generateKeyData(data) == data @@ NoData
copyPublicKeyData(data) == WithField(NoData, "publicKey", data.publicKey)
updateSSHConfigData(data) == ("hostUrl" :> hostUrls(data.provider)) @@ data
testConnectionData(data) == WithField(NoData, "hostAlias", data.hostAlias)

\* vscode.postMessage from the wizard; the extension host takes messages one at a time
Post(command, data) ==
    /\ inbox = <<>>
    /\ Outstanding < MaxOutstanding
    /\ inbox' = Append(inbox, Request(Wizard, command, data))

UiEvent(op, input, posted) == Event(op, Wizard, input, config, posted)

NextStep(stepNumber, identityName, email, provider) ==
    /\ nextStepShown(stepNumber, currentStep, dom)
    /\ LET r == nextStep(stepNumber, currentStep, currentData, identityName, email, provider)
       IN  /\ currentStep' = r.currentStep
           /\ currentData' = r.currentData
           /\ ev' = UiEvent("nextStep",
                            [stepNumber |-> stepNumber, identityName |-> identityName,
                             email |-> email, provider |-> provider, alert |-> r.alert],
                            <<>>)
    /\ UNCHANGED idVars
    /\ UNCHANGED <<sshDirExists, config, keyFiles, inbox, procs, outbox,
                   escaped, dom>>

\* prevStep(stepNumber): the Back button of step stepNumber + 1
PrevStep(stepNumber) ==
    /\ currentStep = stepNumber + 1
    /\ currentStep' = stepNumber
    /\ ev' = UiEvent("prevStep", [stepNumber |-> stepNumber], <<>>)
    /\ UNCHANGED idVars
    /\ UNCHANGED <<sshDirExists, config, keyFiles, inbox, procs, outbox,
                   escaped, currentData, dom>>

GenerateKey ==
    /\ currentStep = 2
    /\ Post("generateKey", generateKeyData(currentData))
    /\ ev' = UiEvent("generateKey()",
                     [data |-> generateKeyData(currentData),
                      rendered |-> "Generating SSH key..."],
                     <<Request(Wizard, "generateKey", generateKeyData(currentData))>>)
    /\ UNCHANGED idVars
    /\ UNCHANGED <<sshDirExists, config, keyFiles, procs, outbox, escaped,
                   currentStep, currentData, dom>>

CopyPublicKey ==
    /\ currentStep = 3
    /\ Post("copyPublicKey", copyPublicKeyData(currentData))
    /\ ev' = UiEvent("copyPublicKey()", [data |-> copyPublicKeyData(currentData)],
                     <<Request(Wizard, "copyPublicKey", copyPublicKeyData(currentData))>>)
    /\ UNCHANGED idVars
    /\ UNCHANGED <<sshDirExists, config, keyFiles, procs, outbox, escaped,
                   currentStep, currentData, dom>>

UpdateSSHConfig ==
    /\ currentStep = 4
    /\ Post("updateSSHConfig", updateSSHConfigData(currentData))
    /\ ev' = UiEvent("updateSSHConfig()", [data |-> updateSSHConfigData(currentData)],
                     <<Request(Wizard, "updateSSHConfig", updateSSHConfigData(currentData))>>)
    /\ UNCHANGED idVars
    /\ UNCHANGED <<sshDirExists, config, keyFiles, procs, outbox, escaped,
                   currentStep, currentData, dom>>

TestConnection ==
    /\ currentStep = 4
    /\ dom.testButton
    /\ Post("testConnection", testConnectionData(currentData))
    /\ ev' = UiEvent("testConnection()", [data |-> testConnectionData(currentData)],
                     <<Request(Wizard, "testConnection", testConnectionData(currentData))>>)
    /\ UNCHANGED idVars
    /\ UNCHANGED <<sshDirExists, config, keyFiles, procs, outbox, escaped,
                   currentStep, currentData, dom>>

\* the Complete Setup button is displayed and can be clicked
completeWizardShown(step, d) == step = 4 /\ d.completeButton

CompleteWizard ==
    /\ completeWizardShown(currentStep, dom)
    /\ Post("closeWizard", NoData)
    /\ ev' = UiEvent("completeWizard()", [alert |-> CompleteAlert],
                     <<Request(Wizard, "closeWizard", NoData)>>)
    /\ UNCHANGED idVars
    /\ UNCHANGED <<sshDirExists, config, keyFiles, procs, outbox, escaped,
                   currentStep, currentData, dom>>

\* each handler gives currentData, the displayed buttons, and the status it renders
handleKeyGenerated(data, cur, d) ==
    IF data.success
    THEN [currentData |-> WithField(WithField(cur, "keyName", data.keyName),
                                    "publicKey", data.publicKey),
          dom |-> [d EXCEPT !.nextStep2 = TRUE],
          rendered |-> "SSH key generated successfully!"]
    ELSE [currentData |-> cur, dom |-> d, rendered |-> "Error: " \o data.error]

\* handlePublicKeyCopied as it would be if a failed copy discarded the session's key
handlePublicKeyCopiedDiscards(data, cur, d) ==
    IF data.success
    THEN [currentData |-> cur, dom |-> d, rendered |-> "Public key copied to clipboard!"]
    ELSE [currentData |-> WithField(cur, "publicKey", Undefined), dom |-> d,
          rendered |-> ""]

handlePublicKeyCopied(data, cur, d) ==
    IF data.success
    THEN [currentData |-> cur, dom |-> d, rendered |-> "Public key copied to clipboard!"]
    ELSE [currentData |-> cur, dom |-> d, rendered |-> ""]

handleConfigUpdated(data, cur, d) ==
    IF data.success
    THEN [currentData |-> WithField(cur, "hostAlias", data.hostAlias),
          dom |-> [d EXCEPT !.testButton = TRUE],
          rendered |-> "SSH config updated! Clone example: " \o data.cloneExample]
    ELSE [currentData |-> cur, dom |-> d, rendered |-> "Error: " \o data.error]

handleConnectionTested(data, cur, d) ==
    IF data.success
    THEN [currentData |-> cur,
          dom |-> [d EXCEPT !.completeButton = TRUE],
          rendered |-> "SSH connection successful! " \o data.output]
    ELSE [currentData |-> cur, dom |-> d,
          rendered |-> "Connection test failed: "
                        \o (IF Has(data, "output") /\ data.output # ""
                            THEN data.output
                            ELSE IF Has(data, "error") THEN data.error ELSE "undefined")]

\* window.addEventListener('message', ...): the switch on message.command
onMessage(message, cur, d) ==
    CASE message.command = "keyGenerated"     -> handleKeyGenerated(message.data, cur, d)
      [] message.command = "publicKeyCopied"  -> handlePublicKeyCopied(message.data, cur, d)
      [] message.command = "configUpdated"    -> handleConfigUpdated(message.data, cur, d)
      [] message.command = "connectionTested" -> handleConnectionTested(message.data, cur, d)
      [] OTHER -> [currentData |-> cur, dom |-> d, rendered |-> ""]

\* the webview is delivered the oldest message the controller posted to it
Message ==
    /\ outbox[Wizard] # <<>>
    /\ \E m \in {Head(outbox[Wizard])} :
       \E r \in {onMessage(m, currentData, dom)} :
           /\ currentData' = r.currentData
           /\ dom' = r.dom
           /\ ev' = UiEvent("message", [message |-> m, rendered |-> r.rendered], <<>>)
    /\ outbox' = [outbox EXCEPT ![Wizard] = Tail(@)]
    /\ UNCHANGED idVars
    /\ UNCHANGED <<sshDirExists, config, keyFiles, inbox, procs, escaped,
                   currentStep>>

WebviewOf(names, emails, providers) ==
    \/ \E identityName \in names, email \in emails, provider \in providers :
          NextStep(2, identityName, email, provider)
    \/ \E n \in 3..4 : NextStep(n, "", "", "")
    \/ \E n \in 1..3 : PrevStep(n)
    \/ GenerateKey
    \/ CopyPublicKey
    \/ UpdateSSHConfig
    \/ TestConnection
    \/ CompleteWizard
    \/ Message

Webview == WebviewOf(IdentityNames, Emails, ProviderOptions)

Next == Webview \/ Controller

Spec == Init /\ [][Next]_vars

----------------------------------------------------------------------------
(* Properties of the wizard; its steps S0..S3 are the script's steps 1..4 *)

Delivered(command) == ev.op = "message" /\ ev.input.message.command = command

\* C4: once step 4 is reached the wizard can be completed whatever the connection
\* test reported: after a connectionTested message, with success true or false,
\* the Complete Setup action is available
C4_CompleteWhateverTheTest ==
    (Delivered("connectionTested") /\ currentStep = 4)
    => completeWizardShown(currentStep, dom)

\* C5: whenever the wizard sends an updateSSHConfig request, the data it sends
\* holds identityName, provider, keyName and publicKey
C5_UpdateCarriesKey ==
    ev.op = "updateSSHConfig()"
    => \A f \in {"identityName", "provider", "keyName", "publicKey"} :
          ev.input.data[f] # Undefined

\* a call of nextStep(2) is the step taken
NextStepTwo == ev' # ev /\ ev'.op = "nextStep" /\ ev'.input.stepNumber = 2

\* C6: the wizard goes from step 1 to step 2 only by nextStep(2) with identityName
\* and email both non-empty, which become the session's; with either one empty the
\* step stays 1, currentData is not changed and the validation alert is raised
C6_StepOneValidated ==
    [][/\ (currentStep = 1 /\ currentStep' = 2)
          => /\ NextStepTwo
             /\ ev'.input.identityName # "" /\ ev'.input.email # ""
             /\ currentData'.identityName = ev'.input.identityName
             /\ currentData'.email = ev'.input.email
       /\ (NextStepTwo /\ (ev'.input.identityName = "" \/ ev'.input.email = ""))
          => /\ currentStep' = 1
             /\ currentData' = currentData
             /\ ev'.input.alert = ValidationAlert]_vars

\* the form was rejected for its empty email, the session keeping the identity
\* and the key of an earlier pass
C6_Witness ==
    /\ ev.op = "nextStep"
    /\ ev.input.identityName # "" /\ ev.input.email = ""
    /\ ev.input.alert = ValidationAlert
    /\ currentStep = 1
    /\ currentData.identityName = "Work"
    /\ currentData.keyName # Undefined

KeyGenerationFailed ==
    /\ ev' # ev
    /\ ev'.op = "message"
    /\ ev'.input.message.command = "keyGenerated"
    /\ ~ev'.input.message.data.success

\* C7: the wizard goes from step 2 to step 3 only when a successful keyGenerated
\* has stored keyName and publicKey in the session's current data; a failed
\* keyGenerated leaves the step, the session data and the buttons as they are
\* (generateKey stays available in step 2) and renders the error
C7_KeyBeforeStepThree ==
    [][/\ (currentStep = 2 /\ currentStep' = 3)
          => /\ dom.nextStep2
             /\ currentData.keyName # Undefined
             /\ currentData.publicKey # Undefined
       /\ KeyGenerationFailed
          => /\ currentStep' = currentStep
             /\ currentData' = currentData
             /\ dom' = dom
             /\ ev'.input.rendered = "Error: " \o ev'.input.message.data.error]_vars

\* C12: for one wizard session at most one external process (ssh-keygen or the
\* connection probe) is running at any time: the controller starts no process
\* for a panel while one it started for that panel has not ended
C12_OneProcessPerSession ==
    \A p \in Panels : Cardinality({i \in 1..Len(procs) : procs[i].panel = p}) <= 1

----------------------------------------------------------------------------
(* updateSSHConfig for identities that differ in name, provider, key and host *)

Payload(identityName, provider, keyName, hostUrl) ==
    [identityName |-> identityName, email |-> Undefined, provider |-> provider,
     keyName |-> keyName, publicKey |-> Undefined, hostAlias |-> Undefined,
     hostUrl |-> hostUrl]

AliasPayloads ==
    { Payload("Work", "github", "id_rsa_work", "github.com"),
      Payload("Work", "github", "id_ed25519", "ssh.github.com"),
      Payload("Work \t Account", "github", "id_rsa_work_account", "github.com"),
      Payload("Work", "gitlab", "id_rsa_work", "gitlab.com") }

NextAlias ==
    \/ \E d \in AliasPayloads : PanelPost(1, "updateSSHConfig", d)
    \/ PanelTake(1)
    \/ \E fault \in {"none", "read", "write"} : Receive(fault)

SpecAlias == Init /\ [][NextAlias]_vars

\* the identity names of AliasPayloads, lower-cased, each run of blanks and tabs
\* replaced by one "-"
ExpectedSlug(identityName) ==
    CASE identityName = "Work"             -> "work"
      [] identityName = "Work \t Account" -> "work-account"

\* C13: the hostAlias that updateSSHConfig answers with is provider, "-", and the
\* identity name lower-cased with each whitespace run replaced by one "-",
\* whatever the key name, the host url, the content of the config file and the
\* calls made before
C13_AliasOfProviderAndName ==
    (UpdateRan /\ ev.posted[1].data.success)
    => ev.posted[1].data.hostAlias
         = ev.input.data.provider \o "-" \o ExpectedSlug(ev.input.data.identityName)

\* the alias github-work-account is answered for "Work \t Account", the file
\* holding the entries of earlier calls
C13_Witness ==
    /\ UpdateRan
    /\ ev.input.data.identityName = "Work \t Account"
    /\ ev.posted[1].data.success
    /\ ev.posted[1].data.hostAlias = "github-work-account"
    /\ CountHost(ev.pre.content, "gitlab-work") = 1
    /\ CountHost(config.content, "github-work-account") = 1

----------------------------------------------------------------------------
(* The wizard run for "Work", a@b.com, github *)

\* the controller has nothing to handle and no process running
Idle == inbox = <<>> /\ procs = <<>>

\* the wizard filled in with identity "Work", email a@b.com and provider github
\* by a user who acts when the controller has finished what was asked before
NextScenario ==
    \/ Idle /\ WebviewOf({"Work"}, {"a@b.com"}, {"github"})
    \/ Controller

SpecScenario == Init /\ [][NextScenario]_vars

DeliveredOk(command) == Delivered(command) /\ ev.input.message.data.success

\* C14: in a wizard session for identityName "Work", email "a@b.com", provider
\* "github", the key generated is named id_rsa_work ("id_rsa_" and the name
\* lower-cased, each whitespace run replaced by "_"), and the config update
\* answers hostAlias "github-work" and the clone example
\* "git clone git@github-work:username/repo.git"
C14_WorkScenario ==
    /\ keyNameOf("My Work \t Key") = "id_rsa_my_work_key"
    /\ keyFiles \subseteq {"id_rsa_work"}
    /\ DeliveredOk("keyGenerated")
       => /\ ev.input.message.data.keyName = "id_rsa_work"
          /\ "id_rsa_work" \in keyFiles
    /\ DeliveredOk("configUpdated")
       => /\ ev.input.message.data.hostAlias = "github-work"
          /\ ev.input.message.data.cloneExample
               = "git clone git@github-work:username/repo.git"
          /\ CountHost(config.content, "github-work") = 1

\* the session went through the four steps: the key id_rsa_work exists, the
\* config update for it is answered in step 4 and the session holds the alias
C14_Witness ==
    /\ DeliveredOk("configUpdated")
    /\ currentStep = 4
    /\ currentData.identityName = "Work" /\ currentData.email = "a@b.com"
    /\ currentData.provider = "github"
    /\ currentData.keyName = "id_rsa_work"
    /\ currentData.hostAlias = "github-work"
    /\ "id_rsa_work" \in keyFiles
    /\ includes(config.content, "    IdentityFile ~/.ssh/id_rsa_work\n")

----------------------------------------------------------------------------
(* GitIdentityManager and GitIdentityProvider *)

\* an element of the stored list; its id (Date.now()) is never read by the program
Identity(name, username, email) == [name |-> name, username |-> username, email |-> email]

\* !value for the result of showInputBox: undefined when dismissed, '' when empty
Falsy(value) == value = "" \/ value = Undefined

\* a find that looks at the first element only
findFirst(identities, name) == identities # <<>> /\ identities[1].name = name

\* identities.find(id => id.name === name) is not undefined
find(identities, name) == \E k \in 1..Len(identities) : identities[k].name = name

\* a filter that drops the first element when the name is in the list
filterHead(identities, name) ==
    IF \E k \in 1..Len(identities) : identities[k].name = name
    THEN Tail(identities) ELSE identities

\* identities.filter(id => id.name !== name)
filter(identities, name) ==
    LET keep[k \in 0..Len(identities)] ==
          IF k = 0 THEN <<>>
          ELSE IF identities[k].name # name THEN Append(keep[k - 1], identities[k])
          ELSE keep[k - 1]
    IN  keep[Len(identities)]

DuplicateError == "Identity with this name already exists"
InvalidDeletion == "Invalid identity object for deletion"

\* addIdentity() without its check for duplicates
addIdentityUnchecked(name, username, email, identities) ==
    IF Falsy(name) \/ Falsy(username) \/ Falsy(email)
    THEN [saved |-> <<>>, shown |-> ""]
    ELSE [saved |-> <<Append(identities, Identity(name, username, email))>>, shown |-> ""]

\* addIdentity() from its prompts to the call of saveIdentities: the list it gives
\* to saveIdentities (if any) and the error message it shows
addIdentity(name, username, email, identities) ==
    IF Falsy(name) \/ Falsy(username) \/ Falsy(email)
    THEN [saved |-> <<>>, shown |-> ""]
    ELSE IF find(identities, name)
    THEN [saved |-> <<>>, shown |-> DuplicateError]
    ELSE [saved |-> <<Append(identities, Identity(name, username, email))>>, shown |-> ""]

\* deleteIdentity as it would be if it did not wait for the confirmation
deleteIdentityUnconfirmed(name, confirm, identities) ==
    IF Falsy(name)
    THEN [saved |-> <<>>, shown |-> InvalidDeletion]
    ELSE [saved |-> <<filter(identities, name)>>, shown |-> ""]

\* deleteIdentity(identity) up to the call of saveIdentities; name is
\* identityData.name, confirm the button chosen in the warning
deleteIdentity(name, confirm, identities) ==
    IF Falsy(name)
    THEN [saved |-> <<>>, shown |-> InvalidDeletion]
    ELSE IF confirm # "Delete"
    THEN [saved |-> <<>>, shown |-> ""]
    ELSE [saved |-> <<filter(identities, name)>>, shown |-> ""]

\* what /bin/sh makes of s placed between double quotes in a command line: a
\* double quote in s closes or reopens the quoting and is removed; closed: the
\* quoting is open at the end of s, so that the quote after it closes it (else
\* the line is a syntax error); single: no blank stands outside the quotes, so
\* that the text is one word (for s without $, ` and \)
RECURSIVE shellWord(_, _)
shellWord(s, quoted) ==
    IF s = "" THEN [closed |-> quoted, single |-> TRUE, word |-> ""]
    ELSE LET c == Ch(s, 1)
             rest == shellWord(SubSeq(s, 2, Len(s)),
                               IF c = "\"" THEN ~quoted ELSE quoted)
         IN  IF c = "\"" THEN rest
             ELSE [closed |-> rest.closed,
                   single |-> rest.single /\ (quoted \/ ~IsSpace(c)),
                   word |-> c \o rest.word]

\* switchIdentity(identity): the Git identity afterwards, the message shown and
\* how the promise ends. The shell runs nothing when it cannot parse the line;
\* the first git config fails under fault "name" (no Git repository in the
\* folder) or when it is given several words, and then the second one is not
\* run; the second one fails under fault "email" or when given several words
switchIdentity(identity, open, user, fault) ==
    IF ~open
    THEN [gitUser |-> user, shown |-> NoWorkspace, ended |-> "resolved", ran |-> FALSE]
    ELSE LET n == shellWord(identity.username, TRUE)
             e == shellWord(identity.email, TRUE)
         IN  IF ~(n.closed /\ e.closed) \/ ~n.single \/ fault = "name"
             THEN [gitUser |-> user, shown |-> "Failed to switch identity: Command failed",
                   ended |-> "rejected", ran |-> TRUE]
             ELSE IF ~e.single \/ fault = "email"
             THEN [gitUser |-> [user EXCEPT !.name = n.word],
                   shown |-> "Failed to switch identity: Command failed",
                   ended |-> "rejected", ran |-> TRUE]
             ELSE [gitUser |-> [name |-> n.word, email |-> e.word],
                   shown |-> "Switched to \"" \o identity.name \o "\" for folder",
                   ended |-> "resolved", ran |-> TRUE]

(* The commands of the identity manager *)

wizardVars == <<fsVars, ctlVars, wvVars, ev>>

\* the command gitIdentitySwitcher.addIdentity, the three prompts answered
AddIdentity(name, username, email) ==
    /\ Len(saves) < MaxOutstanding
    /\ \E r \in {addIdentity(name, username, email, stored)} :
         /\ saves' = saves \o [k \in 1..Len(r.saved) |->
                                 [op |-> "addIdentity", name |-> name, list |-> r.saved[k]]]
         /\ idEv' = [op |-> "addIdentity", name |-> name, username |-> username,
                     email |-> email, loaded |-> stored, saved |-> r.saved,
                     shown |-> r.shown]
    /\ UNCHANGED <<stored, treeIdentities, workspaceOpen, gitUser, statusBar>>
    /\ UNCHANGED wizardVars

\* the commands gitIdentitySwitcher.deleteIdentity and deleteIdentityFromPalette,
\* the warning answered
DeleteIdentity(name, confirm) ==
    /\ Len(saves) < MaxOutstanding
    /\ \E r \in {deleteIdentity(name, confirm, stored)} :
         /\ saves' = saves \o [k \in 1..Len(r.saved) |->
                                 [op |-> "deleteIdentity", name |-> name, list |-> r.saved[k]]]
         /\ idEv' = [op |-> "deleteIdentity", name |-> name, confirm |-> confirm,
                     loaded |-> stored, saved |-> r.saved, shown |-> r.shown]
    /\ UNCHANGED <<stored, treeIdentities, workspaceOpen, gitUser, statusBar>>
    /\ UNCHANGED wizardVars

\* config.update of saveIdentities completes: the setting is replaced and the
\* operation goes on after its await (refresh, message); when update rejects,
\* deleteIdentity shows the error and addIdentity ends with it
SaveDone(i, fault) ==
    /\ i \in 1..Len(saves)
    /\ saves' = RemoveAt(saves, i)
    /\ stored' = IF fault = "none" THEN saves[i].list ELSE stored
    /\ treeIdentities' = IF fault = "none" THEN saves[i].list ELSE treeIdentities
    /\ idEv' = [op |-> "saved", by |-> saves[i].op, name |-> saves[i].name,
                before |-> stored, fault |-> fault,
                shown |-> IF fault = "none"
                          THEN (IF saves[i].op = "addIdentity" THEN "Added identity: "
                                ELSE "Deleted identity: ") \o saves[i].name
                          ELSE IF saves[i].op = "deleteIdentity"
                          THEN "Failed to delete identity: Unable to write into user settings"
                          ELSE "",
                ended |-> IF fault # "none" /\ saves[i].op = "addIdentity"
                          THEN "rejected" ELSE "resolved"]
    /\ UNCHANGED <<workspaceOpen, gitUser, statusBar>>
    /\ UNCHANGED wizardVars

\* the command gitIdentitySwitcher.refreshView
Refresh ==
    /\ treeIdentities' = stored
    /\ idEv' = [op |-> "refresh"]
    /\ UNCHANGED <<stored, saves, workspaceOpen, gitUser, statusBar>>
    /\ UNCHANGED wizardVars

\* the identities offered by the tree view and by the quick pick
Selectable ==
    {treeIdentities[k] : k \in 1..Len(treeIdentities)} \cup {stored[k] : k \in 1..Len(stored)}

\* the command gitIdentitySwitcher.switchIdentity for an item of the tree or of
\* the quick pick, the git commands having ended
SwitchIdentity(identity, fault) ==
    /\ identity \in Selectable
    /\ \E r \in {switchIdentity(identity, workspaceOpen, gitUser, fault)} :
         /\ gitUser' = r.gitUser
         /\ idEv' = [op |-> "switchIdentity", identity |-> identity, fault |-> fault,
                     before |-> gitUser, shown |-> r.shown, ended |-> r.ended,
                     ran |-> r.ran]
    /\ UNCHANGED <<stored, saves, treeIdentities, workspaceOpen, statusBar>>
    /\ UNCHANGED wizardVars

\* getCurrentIdentity() called by the status bar or the current identity view
GetCurrentIdentity ==
    /\ idEv' = [op |-> "getCurrentIdentity",
                result |-> getCurrentIdentity(workspaceOpen, gitUser)]
    /\ UNCHANGED <<stored, saves, treeIdentities, workspaceOpen, gitUser, statusBar>>
    /\ UNCHANGED wizardVars

\* updateStatusBar run at activation or by onDidChangeActiveTextEditor
UpdateStatusBar ==
    /\ \E current \in {getCurrentIdentity(workspaceOpen, gitUser)} :
         /\ statusBar' = updateStatusBar(statusBar, current)
         /\ idEv' = [op |-> "updateStatusBar", result |-> current]
    /\ UNCHANGED <<stored, saves, treeIdentities, workspaceOpen, gitUser>>
    /\ UNCHANGED wizardVars

\* what the user can answer to the prompts of addIdentity
AddInputs ==
    { Identity("Work", "jdoe", "a@b.com"),
      Identity("Work", "john", "j@b.com"),
      Identity("Home", "John \"JD\" Doe", "h@b.com"),
      Identity("", "jdoe", "a@b.com"),
      Identity("Home", Undefined, Undefined) }

\* identityData.name of the argument of deleteIdentity
DeleteArguments == {"Work", "Lab", Undefined}

\* the lists found in the settings at activation
InitialLists ==
    { <<>>,
      <<Identity("Home", "hdoe", "h@b.com"), Identity("Work", "jdoe", "a@b.com"),
        Identity("Lab", "ldoe", "l@b.com")>> }

InitialGitUsers == {NoGitUser, [name |-> "someone", email |-> "s@b.com"]}

\* the commands that change the stored list, and the refresh of the view
NextId ==
    \/ \E a \in AddInputs : AddIdentity(a.name, a.username, a.email)
    \/ \E name \in DeleteArguments, confirm \in {"Delete", "Cancel", Undefined} :
          DeleteIdentity(name, confirm)
    \/ \E i \in 1..Len(saves), fault \in {"none", "update"} : SaveDone(i, fault)
    \/ Refresh

InitId ==
    /\ WizardInit /\ ~sshDirExists
    /\ IdentitiesInit(InitialLists, {TRUE}, {NoGitUser})

SpecId == InitId /\ [][NextId]_vars

\* addIdentity was answered with the name of a stored identity
DuplicateAdded(a) == AddIdentity(a.name, a.username, a.email) /\ find(stored, a.name)

\* C15: addIdentity with the name of an identity of the stored list saves nothing
\* and leaves the stored list as it is (same length, same elements), whatever the
\* list; with the three prompts answered it ends with the error message
C15_DuplicateNameRejected ==
    [][\A a \in AddInputs :
          DuplicateAdded(a) =>
            /\ stored' = stored /\ Len(stored') = Len(stored)
            /\ saves' = saves
            /\ treeIdentities' = treeIdentities
            /\ idEv'.saved = <<>>
            /\ (~Falsy(a.username) /\ ~Falsy(a.email) => idEv'.shown = DuplicateError)]_vars

\* "Work" was added again with another username and email, to a list of two
C15_Witness ==
    /\ idEv.op = "addIdentity" /\ idEv.name = "Work" /\ idEv.username = "john"
    /\ Len(idEv.loaded) = 2 /\ find(idEv.loaded, "Work")
    /\ idEv.shown = DuplicateError /\ idEv.saved = <<>>
    /\ stored = idEv.loaded /\ saves = <<>>

\* no two elements of the list have the same name
UniqueNames(identities) ==
    \A i, j \in 1..Len(identities) : identities[i].name = identities[j].name => i = j

\* C16: no two stored identities have the same name, in every state reached by
\* addIdentity and deleteIdentity in any order and interleaving with the
\* completion of their saves; the same holds for every list still being saved
C16_NamesStayUnique ==
    /\ UniqueNames(stored)
    /\ \A k \in 1..Len(saves) : UniqueNames(saves[k].list)

\* two addIdentity of "Work" both loaded the empty list; the save of the second
\* one completed while the save of the first one is still pending
C16_Witness ==
    /\ stored = <<Identity("Work", "john", "j@b.com")>>
    /\ Len(saves) = 1 /\ saves[1].op = "addIdentity"
    /\ saves[1].list = <<Identity("Work", "jdoe", "a@b.com")>>
    /\ idEv.op = "saved" /\ idEv.fault = "none"

\* after is before without its element called name: equal to before when
\* there is none, else one element shorter with the others in their order
DeletedFrom(before, after, name) ==
    IF \A k \in 1..Len(before) : before[k].name # name
    THEN after = before
    ELSE /\ Len(after) = Len(before) - 1
         /\ \E k \in 1..Len(before) : before[k].name = name /\ after = RemoveAt(before, k)

\* a confirmed deleteIdentity has run and nothing else since, its save is the
\* only one pending
DeletePending ==
    /\ idEv.op = "deleteIdentity" /\ idEv.confirm = "Delete" /\ idEv.saved # <<>>
    /\ Len(saves) = 1

\* C17: the list a confirmed deleteIdentity hands to saveIdentities is the list
\* it loaded when the name is not in it, and else that list without the one
\* element of that name, the others in their order; when its save completes
\* with no other operation in between, the stored list has changed in that way
C17_DeleteRemovesOnlyTheName ==
    /\ [](idEv.op = "deleteIdentity" /\ idEv.confirm = "Delete" /\ ~Falsy(idEv.name)
            => /\ Len(idEv.saved) = 1
               /\ DeletedFrom(idEv.loaded, idEv.saved[1], idEv.name))
    /\ [][DeletePending /\ SaveDone(1, "none")
            => DeletedFrom(stored, stored', idEv.name)]_vars

\* "Work" was deleted from between "Home" and "Lab"
C17_Witness ==
    /\ idEv.op = "saved" /\ idEv.by = "deleteIdentity" /\ idEv.name = "Work"
    /\ idEv.fault = "none" /\ Len(idEv.before) = 3 /\ idEv.before[2].name = "Work"
    /\ Len(stored) = 2 /\ stored[1].name = "Home" /\ stored[2].name = "Lab"

\* "Lab" was deleted from a list that has no "Lab": the list was saved as it was
C17_AbsentName ==
    /\ idEv.op = "saved" /\ idEv.by = "deleteIdentity" /\ idEv.name = "Lab"
    /\ idEv.fault = "none" /\ idEv.before # <<>> /\ stored = idEv.before

\* adding identities, switching to one of them and reading the Git identity back
NextSwitch ==
    \/ \E a \in AddInputs : AddIdentity(a.name, a.username, a.email)
    \/ \E fault \in {"none", "update"} : SaveDone(1, fault)
    \/ \E identity \in Selectable, fault \in {"none", "name", "email"} :
          SwitchIdentity(identity, fault)
    \/ GetCurrentIdentity
    \/ UpdateStatusBar

InitSwitch ==
    /\ WizardInit /\ ~sshDirExists
    /\ IdentitiesInit({<<>>}, BOOLEAN, InitialGitUsers)

SpecSwitch == InitSwitch /\ [][NextSwitch]_vars

\* switchIdentity ran its git commands in the workspace folder and resolved
SwitchSucceeded == idEv.op = "switchIdentity" /\ idEv.ran /\ idEv.ended = "resolved"

\* C18: after a successful switchIdentity of an identity that addIdentity stored,
\* getCurrentIdentity in that workspace returns exactly the username and the
\* email of the identity
C18_SwitchThenRead ==
    SwitchSucceeded =>
      \E r \in {getCurrentIdentity(workspaceOpen, gitUser)} :
         /\ r.ended = "resolved"
         /\ r.username = idEv.identity.username
         /\ r.email = idEv.identity.email

----------------------------------------------------------------------------
(* The SSH config file as other programs left it *)

\* a config whose comment was written in Latin-1: its e acute is one byte that
\* is no UTF-8 sequence
Latin1Config ==
    [exists |-> TRUE, mode |-> 420,
     content |-> "# cl" \o InvalidByte \o "\nHost example\n    HostName example.com\n"]

AppendFiles == InitialFiles \cup {[dir |-> TRUE, config |-> Latin1Config]}

InitAppend ==
    /\ WizardInitWith(AppendFiles)
    /\ IdentitiesInit({<<>>}, {TRUE}, {NoGitUser})

SpecAppend == InitAppend /\ [][NextConfig]_vars

\* a is the beginning of b
IsPrefix(a, b) == Len(a) <= Len(b) /\ SubSeq(b, 1, Len(a)) = a

\* C19: the config file is append-only: what the file held before a handler ran
\* is the beginning of what it holds afterwards, and a file that existed still
\* exists
C19_AppendOnly ==
    ev.op # "none" /\ ev.pre.exists
        => config.exists /\ IsPrefix(ev.pre.content, config.content)

\* bit b of the permission bits m
PermissionBit(m, b) == (m \div (2 ^ b)) % 2 = 1

\* every permission bit of after is a bit of before
NotWidened(before, after) ==
    \A b \in 0..11 : PermissionBit(after, b) => PermissionBit(before, b)

\* C20: a config file that updateSSHConfig creates has mode 0600 (read and write
\* for the owner, nothing else); a config file that existed before
\* updateSSHConfig has no permission bit afterwards that it did not have
\* before, whether a block was appended or not
C20_ModeOfConfig ==
    ev.op = "updateSSHConfig" =>
        /\ (~ev.pre.exists /\ config.exists =>
               /\ config.mode = OwnerReadWrite
               /\ \A b \in 0..11 : PermissionBit(config.mode, b) <=> b \in {7, 8})
        /\ (ev.pre.exists => config.exists /\ NotWidened(ev.pre.mode, config.mode))

\* updateSSHConfig created the config file with its first block
C20_Witness ==
    /\ UpdateRan /\ ev.posted = ConfigUpdatedOk(RanAlias)
    /\ ~ev.pre.exists /\ config.exists
    /\ config.mode = OwnerReadWrite

\* updateSSHConfig appended a block to a config file of mode 0644, which is
\* still 0644
C20_ExistingKeepsMode ==
    /\ UpdateRan /\ ev.posted = ConfigUpdatedOk(RanAlias)
    /\ ev.pre.exists /\ ev.pre.mode = 420
    /\ config.content # ev.pre.content /\ config.mode = 420

\* C21: after a successful switchIdentity the status bar is shown with the
\* username Git now has for the workspace, without anything else happening
C21_StatusBarFollowsSwitch ==
    SwitchSucceeded =>
      \E r \in {getCurrentIdentity(workspaceOpen, gitUser)} :
         statusBar = [shown |-> TRUE, text |-> statusBarText(r.username)]

----------------------------------------------------------------------------
(* A wizard session in which the identity of step 1 is changed *)

\* steps 1 and 2: the user enters "Work" or "Home", asks for the key, and may go
\* back and change the identity while the key is being generated
NextSession ==
    \/ \E identityName \in {"Work", "Home"} : NextStep(2, identityName, "a@b.com", "github")
    \/ PrevStep(1)
    \/ GenerateKey
    \/ Message
    \/ \E fault \in {"none", "mkdir"} : Receive(fault)
    \/ \E i \in 1..Len(procs), error \in BOOLEAN : KeygenExit(i, error, "none")

SpecSession == Init /\ [][NextSession]_vars

\* C22: whenever the session holds a keyName, it is the key name derived from
\* the session's identityName
C22_KeyNameOfCurrentIdentity ==
    currentData.keyName # Undefined
        => currentData.keyName = keyNameOf(currentData.identityName)

----------------------------------------------------------------------------
(* What a successful configUpdated means for the file *)

\* the content holds a Host entry whose alias is exactly alias, for hostUrl and
\* with the IdentityFile of keyName
HasEntryFor(content, alias, hostUrl, keyName) ==
    \E i \in HostLines(content) :
        /\ AliasAt(content, i) = alias
        /\ \E rest \in {"\n    HostName " \o Interp(hostUrl) \o "\n    User git\n"
                           \o "    IdentityFile ~/.ssh/" \o Interp(keyName) \o "\n"} :
              \E from \in {LineEnd(content, i)} :
                 /\ from + Len(rest) - 1 <= Len(content)
                 /\ SubSeq(content, from, from + Len(rest) - 1) = rest

\* C23: after updateSSHConfig answered success:true with hostAlias A, the config
\* file holds a Host entry whose alias is exactly A with the IdentityFile of the
\* keyName that was supplied
C23_SuccessMeansEntry ==
    UpdateRan /\ ev.posted = ConfigUpdatedOk(RanAlias)
        => HasEntryFor(config.content, RanAlias, ev.input.data.hostUrl,
                       ev.input.data.keyName)

\* the entry is there when the alias is not the beginning of an alias of the file
C23_EntryOfFreshAlias ==
    /\ UpdateRan /\ ev.posted = ConfigUpdatedOk(RanAlias)
    /\ ~includes(ev.pre.content, "Host " \o RanAlias)
    /\ HasEntryFor(config.content, RanAlias, ev.input.data.hostUrl, ev.input.data.keyName)

----------------------------------------------------------------------------
(* The connection test of the wizard *)

\* C24: every testConnection request the wizard sends carries a hostAlias, and
\* it is the alias of the session's current identity and provider
C24_TestCarriesSessionAlias ==
    ev.op = "testConnection()"
        => /\ ev.input.data.hostAlias # Undefined
           /\ ev.input.data.hostAlias
                 = hostAliasOf(currentData.provider, currentData.identityName)

\* in a session that has not gone back to step 1 since its configUpdated success,
\* the request carries the alias that response stored
C24_TestAfterConfigUpdated ==
    /\ ev.op = "testConnection()"
    /\ ev.input.data.hostAlias = "github-work"
    /\ currentData.hostAlias = "github-work" /\ currentData.identityName = "Work"

----------------------------------------------------------------------------
(* Key files *)

\* the generateKey handler has just started ssh-keygen: the process is the last
\* one started and nothing was posted yet
KeygenStarted ==
    /\ ev.op = "generateKey" /\ ev.posted = <<>> /\ ~escaped
    /\ procs # <<>> /\ procs[Len(procs)].proc.kind = "ssh-keygen"

\* C25: a generateKey request never runs the key generation on the path of a key
\* file that an earlier generateKey has created
C25_KeyCreatedOnce ==
    KeygenStarted => procs[Len(procs)].proc.keyName \notin keyFiles

----------------------------------------------------------------------------
(* Failures of the identity switch and read *)

\* C26: when switchIdentity fails (its promise rejects, an error is shown), the
\* workspace has the user.name and the user.email it had before the call
C26_SwitchAllOrNothing ==
    idEv.op = "switchIdentity" /\ idEv.ended = "rejected" => gitUser = idEv.before

\* C27: with no workspace folder open, getCurrentIdentity fails and switchIdentity
\* ends as a failure for its caller; neither runs a Git command nor changes the
\* Git configuration
C27_NoWorkspaceFails ==
    ~workspaceOpen =>
        /\ idEv.op = "getCurrentIdentity"
              => idEv.result.ended = "rejected" /\ ~idEv.result.ran
        /\ idEv.op = "switchIdentity"
              => idEv.ended = "rejected" /\ ~idEv.ran /\ gitUser = idEv.before

\* the read does fail with the error of the missing workspace folder
C27_ReadFails ==
    /\ ~workspaceOpen /\ idEv.op = "getCurrentIdentity"
    /\ idEv.result = [ended |-> "rejected", error |-> NoWorkspace, ran |-> FALSE]

----------------------------------------------------------------------------
(* Copying the public key *)

\* the step is one of a copy: the wizard posts copyPublicKey, the controller
\* handles it, or the wizard is delivered publicKeyCopied
CopyStep ==
    /\ inbox' # inbox \/ outbox' # outbox
    /\ \/ ev'.op = "copyPublicKey()"
       \/ ev'.op = "copyPublicKey"
       \/ ev'.op = "message" /\ ev'.input.message.command = "publicKeyCopied"

\* C28: a copyPublicKey request and its publicKeyCopied response, success or
\* failure, leave the active step and the session fields unchanged, and in
\* step 3 the button to step 4 is enabled whatever was copied
C28_CopyIsASideAction ==
    /\ [][CopyStep => currentStep' = currentStep /\ currentData' = currentData]_vars
    /\ [](currentStep = 3 => nextStepShown(4, currentStep, dom)
                              /\ ENABLED NextStep(4, "", "", ""))

\* a failed copy was answered and delivered, and the wizard is still in step 3
\* with its key
C28_Witness ==
    /\ ev.op = "message" /\ ev.input.message.command = "publicKeyCopied"
    /\ ~ev.input.message.data.success
    /\ currentStep = 3
    /\ currentData.publicKey # Undefined

\* step 4 is entered while a copy is still unanswered
C28_NextWithoutCopyResult ==
    /\ ev.op = "nextStep" /\ currentStep = 4
    /\ outbox[Wizard] # <<>> /\ Head(outbox[Wizard]).command = "publicKeyCopied"

----------------------------------------------------------------------------
(* The stored list under every command *)

\* answers to the prompts of addIdentity: complete, empty name, dismissed prompts
StoreInputs ==
    { Identity("Work", "jdoe", "a@b.com"),
      Identity("", "jdoe", "a@b.com"),
      Identity("Home", Undefined, Undefined) }

\* the extension has finished what the user asked before
Settled == Idle /\ saves = <<>>

\* the identity commands and a wizard run, by a user who acts when the extension
\* has finished what was asked before
NextStore ==
    \/ Settled /\ \E a \in StoreInputs : AddIdentity(a.name, a.username, a.email)
    \/ Settled /\ \E name \in {"Work", Undefined}, confirm \in {"Delete", "Cancel"} :
                     DeleteIdentity(name, confirm)
    \/ \E fault \in {"none", "update"} : SaveDone(1, fault)
    \/ Settled /\ Refresh
    \/ Settled /\ \E identity \in Selectable : SwitchIdentity(identity, "none")
    \/ Settled /\ WebviewOf({"Work"}, {"a@b.com"}, {"github"})
    \/ \E fault \in {"none", "clipboard"} : Receive(fault)
    \/ KeygenExit(1, FALSE, "none")
    \/ SshExit(1, [error |-> FALSE, stdout |-> "You've successfully ", stderr |-> "authenticated\n"])

InitStore ==
    /\ WizardInitWith({[dir |-> TRUE, config |-> NoConfig]})
    /\ IdentitiesInit({<<>>}, {TRUE}, {NoGitUser})

SpecStore == InitStore /\ [][NextStore]_vars

\* a save was queued by this step
SaveQueued == Len(saves') > Len(saves)

\* addIdentity was answered in full with a name that is not stored
CompletedAdd ==
    /\ idEv'.op = "addIdentity"
    /\ ~Falsy(idEv'.name) /\ ~Falsy(idEv'.username) /\ ~Falsy(idEv'.email)
    /\ ~find(stored, idEv'.name)
    /\ saves' = Append(saves, [op |-> "addIdentity", name |-> idEv'.name,
                                list |-> Append(stored, Identity(idEv'.name, idEv'.username,
                                                                 idEv'.email))])

\* deleteIdentity was given a name and confirmed with Delete
ConfirmedDelete ==
    /\ idEv'.op = "deleteIdentity"
    /\ ~Falsy(idEv'.name) /\ idEv'.confirm = "Delete"
    /\ saves' = Append(saves, [op |-> "deleteIdentity", name |-> idEv'.name,
                                list |-> filter(stored, idEv'.name)])

\* C29: the stored list changes only when the save of a completed addIdentity or
\* of a deleteIdentity confirmed with Delete completes; every other step, of the
\* identity commands and of the wizard, leaves it unchanged
C29_StoredChangesOnlyBySave ==
    /\ [][SaveQueued => CompletedAdd \/ ConfirmedDelete]_vars
    /\ [][stored' # stored =>
             /\ saves # <<>> /\ saves' = Tail(saves)
             /\ idEv'.op = "saved" /\ idEv'.fault = "none"
             /\ stored' = Head(saves).list]_vars

\* a confirmed deletion has removed "Work" from the stored list
C29_Witness ==
    /\ idEv.op = "saved" /\ idEv.by = "deleteIdentity" /\ idEv.fault = "none"
    /\ find(idEv.before, "Work") /\ ~find(stored, "Work")

\* a deletion of the stored "Work" was cancelled in the wizard's step 3
C29_Cancelled ==
    /\ idEv.op = "deleteIdentity" /\ idEv.confirm = "Cancel" /\ idEv.name = "Work"
    /\ find(stored, "Work") /\ saves = <<>> /\ currentStep = 3

----------------------------------------------------------------------------
(* The host of each provider *)

\* the options of select#provider
AllProviders == {"github", "gitlab", "bitbucket", "other"}

\* the wizard run for "Work" with each provider, up to the update of the config
\* file, by a user who acts when the controller has finished what was asked before
NextProvider ==
    \/ Idle /\ \E provider \in AllProviders : NextStep(2, "Work", "a@b.com", provider)
    \/ Idle /\ \E n \in 3..4 : NextStep(n, "", "", "")
    \/ Idle /\ GenerateKey
    \/ Idle /\ UpdateSSHConfig
    \/ Message
    \/ \E fault \in {"none", "write"} : Receive(fault)
    \/ KeygenExit(1, FALSE, "none")

SpecProvider == Init /\ [][NextProvider]_vars

\* the host the wizard is documented to use for a provider
DefaultHost(provider) ==
    IF provider = "gitlab" THEN "gitlab.com"
    ELSE IF provider = "bitbucket" THEN "bitbucket.org"
    ELSE "github.com"

\* what the last updateSSHConfig appended to the config file
Appended == SubSeq(config.content, Len(ev.pre.content) + 1, Len(config.content))

\* C30: every updateSSHConfig request of the wizard carries a non-empty hostUrl,
\* the default host of the session's provider (github.com for "other"), and the
\* block the controller writes for it has that host as its HostName
C30_HostOfProvider ==
    /\ ev.op = "updateSSHConfig()" =>
          /\ ev.input.data.hostUrl \notin {"", Undefined}
          /\ ev.input.data.hostUrl = DefaultHost(currentData.provider)
          /\ ev.posted[1].data.hostUrl = DefaultHost(currentData.provider)
    /\ ev.op = "updateSSHConfig" /\ config # ev.pre =>
          includes(Appended, "\n    HostName " \o DefaultHost(ev.input.data.provider)
                               \o "\n    User git\n")

\* a block was written for provider "other" with HostName github.com
C30_Witness ==
    /\ ev.op = "updateSSHConfig" /\ config # ev.pre
    /\ ev.input.data.provider = "other"
    /\ includes(config.content, "Host other-work\n    HostName github.com\n")

\* a request for bitbucket was posted with bitbucket.org
C30_Bitbucket ==
    /\ ev.op = "updateSSHConfig()" /\ currentData.provider = "bitbucket"
    /\ ev.input.data.hostUrl = "bitbucket.org"

----------------------------------------------------------------------------
(* The commands of the wizard and the cases of the controller *)

\* the cases of the switch in onDidReceiveMessage
DispatchedCommands == {"generateKey", "testConnection", "updateSSHConfig", "copyPublicKey"}

\* C31: every command the wizard posts is one of the cases of the controller's
\* switch, so that no action of the wizard is ignored by the controller
C31_PostedAreDispatched ==
    \A k \in 1..Len(inbox) :
        inbox[k].panel = Wizard => inbox[k].command \in DispatchedCommands

\* the controller has handled the closeWizard of Complete Setup: it started
\* nothing, posted nothing and left the config file as it was
C31_CloseWizardIgnored ==
    /\ ev.op = "closeWizard" /\ ev.panel = Wizard
    /\ ev.posted = <<>> /\ config = ev.pre /\ procs = <<>>

====
